---- MODULE Spec2Model ----
(***************************************************************************)
(* Car Wash Manager API (carwash_api.py): the multi-tenant FastAPI service *)
(* over a MongoDB store.  Every request handler is a process; each await   *)
(* of a store call (find_one, insert_one, update_one, find_one_and_update, *)
(* find) is one atomic step, and steps of different requests interleave.   *)
(*                                                                         *)
(* SpecAuth  signups, logins and token checks, from an empty database.     *)
(* Spec      the vehicle registry and the assignment ledger: requests of   *)
(*           two signed-up tenants, interleaved call by call.              *)
(* SpecSeq   the same requests, one at a time.                             *)
(* SpecAll   the ledger together with its read requests (get, list,        *)
(*           history, list of open assignments).                           *)
(***************************************************************************)
EXTENDS Naturals, Sequences, FiniteSets, TLC

(* ---------------- bounds of the model ---------------- *)
MaxSignups == 2
MaxCars == 2
MaxAssignments == 2

(* ---------------- program constants ---------------- *)
POINTS_PER_WASH == 1
\* the length every to_list is given
ListLimit == 1000

\* the request workers: two requests can be in flight together
Procs == {"w1", "w2"}

(* ---------------- request inputs ---------------- *)
Usernames == {"alice", "bob"}
Passwords == {"pw123"}
\* what a login form may carry: the right password or a wrong one
LoginPasswords == {"pw123", "hunter2"}
BusinessNames == {"Acme"}

(* plates are strings, modelled as sequences of characters *)
PlateInputs == { <<"a", "1">>, <<"A", "1">> }

CarInputs ==
    { [plate |-> <<"a", "1">>, car_type |-> "sedan", owner_name |-> "ann", owner_phone |-> "555"],
      [plate |-> <<"A", "1">>, car_type |-> "suv",   owner_name |-> "ben", owner_phone |-> "777"] }

EmployeeNames == {"eve"}
ServiceTypes == {"Lavado Completo"}

(* ---------------- strings and ids ---------------- *)
UpperChar(c) ==
    CASE c = "a" -> "A"
      [] c = "b" -> "B"
      [] OTHER -> c

\* (a slip: the plate kept as the client wrote it)
upper_asis(s) == s

\* str.upper()
upper(s) == [i \in DOMAIN s |-> UpperChar(s[i])]

\* str(ObjectId): the 24-digit hex text of an ObjectId (ObjectIds are numbered 1, 2, ...)
str(oid) == [kind |-> "hex24", n |-> oid]

\* a path parameter that is no ObjectId text
NotAnId == [kind |-> "text", n |-> 0]

\* ObjectId(assignment_id): raises unless the text is a well-formed id
ObjectId_is_valid(s) == s.kind = "hex24"
ObjectId(s) == s.n

(* ---------------- passwords and tokens ---------------- *)
get_password_hash(password) == [scheme |-> "bcrypt", secret |-> password]

verify_password(plain_password, hashed_password) ==
    hashed_password = get_password_hash(plain_password)

\* jwt.encode under SECRET_KEY: a signed payload.  The exp claim is not
\* modelled: an expired token is one of those jwt.decode rejects.
create_access_token(data) == [sub |-> data.sub, business_id |-> data.business_id, signed |-> TRUE]

\* a token that jwt.decode rejects (bad signature, expired or malformed)
ForgedToken == [sub |-> "alice", business_id |-> str(1), signed |-> FALSE]

VARIABLES
    businesses,   \* db.businesses, in insertion order; _id is the position
    users,        \* db.users
    cars,         \* db.cars
    assignments,  \* db.assignments
    tokens,       \* access tokens issued by login and held by clients
    pc,           \* per request worker: the store call it is about to make
    req,          \* per worker: the request being served (op, token, arg)
    cur,          \* per worker: current_user resolved by get_current_user
    loc,          \* per worker: the handler's local variables
    resp,         \* the response sent by the step just taken, with its request
    credits       \* history: per assignment id, the $inc calls made on its behalf

vars == <<businesses, users, cars, assignments, tokens, pc, req, cur, loc, resp, credits>>

(* ---------------- store queries ---------------- *)
Min(S) == CHOOSE x \in S : \A y \in S : x <= y

\* find_one over the matching _ids: the first document in natural order, 0 for None
FindOne(matching) ==
    IF matching = {} THEN 0 ELSE Min(matching)

\* a stored document with its _id
Doc(coll, i) == [id |-> i] @@ coll[i]

NoUser == [username |-> "", hashed_password |-> get_password_hash(""), business_id |-> str(0)]
NoBody == [none |-> TRUE]
NoLoc == [none |-> TRUE]
NoReq == [op |-> "none"]
NoResp == [proc |-> "", request |-> NoReq, code |-> 0, body |-> NoBody]

\* get_user: db.users.find_one({"username": username})
get_user(username) ==
    FindOne({ u \in DOMAIN users : users[u].username = username })

\* authenticate_user: the user record, or 0 for False
authenticate_user(username, password) ==
    LET u == get_user(username) IN
    IF u = 0 THEN 0
    ELSE IF ~verify_password(password, users[u].hashed_password) THEN 0
    ELSE u

\* get_current_user: the user record for a bearer token, or 0 for the 401
get_current_user(token) ==
    IF ~token.signed THEN 0
    ELSE get_user(token.sub)

\* the two tenants of the ledger scenario, signed up and logged in
Tenants ==
    << [username |-> "alice", hashed_password |-> get_password_hash("pw123"), business_id |-> str(1)],
       [username |-> "bob",   hashed_password |-> get_password_hash("pw123"), business_id |-> str(2)] >>

Idle ==
    /\ pc = [p \in Procs |-> "idle"]
    /\ req = [p \in Procs |-> NoReq]
    /\ cur = [p \in Procs |-> NoUser]
    /\ loc = [p \in Procs |-> NoLoc]
    /\ resp = NoResp

\* the state after construction: an empty database
InitAuth ==
    /\ businesses = <<>>
    /\ users = <<>>
    /\ cars = <<>>
    /\ assignments = <<>>
    /\ tokens = {}
    /\ credits = [a \in 1..MaxAssignments |-> 0]
    /\ Idle

\* the state after alice and bob each signed up a business and logged in
\* (SpecAuth reaches it: two signups and two logins, all returned)
Init ==
    /\ businesses = << [name |-> "Acme"], [name |-> "Acme"] >>
    /\ users = Tenants
    /\ cars = <<>>
    /\ assignments = <<>>
    /\ tokens = { create_access_token([sub |-> Tenants[i].username,
                                       business_id |-> Tenants[i].business_id]) : i \in 1..2 }
    /\ credits = [a \in 1..MaxAssignments |-> 0]
    /\ Idle

Free(p) == pc[p] = "idle"

\* a handler returns or raises: the response to `request` is sent and the worker is free
Respond(p, request, code, body) ==
    /\ pc' = [pc EXCEPT ![p] = "idle"]
    /\ req' = [req EXCEPT ![p] = NoReq]
    /\ cur' = [cur EXCEPT ![p] = NoUser]
    /\ loc' = [loc EXCEPT ![p] = NoLoc]
    /\ resp' = [proc |-> p, request |-> request, code |-> code, body |-> body]

\* the handler goes on to its next store call
Goto(p, request, user, label, locals) ==
    /\ pc' = [pc EXCEPT ![p] = label]
    /\ req' = [req EXCEPT ![p] = request]
    /\ cur' = [cur EXCEPT ![p] = user]
    /\ loc' = [loc EXCEPT ![p] = locals]
    /\ resp' = NoResp

(* ---------------- POST /auth/signup ---------------- *)
\* db.businesses.insert_one(business)
signup_business(p) ==
    /\ Free(p)
    /\ Len(businesses) < MaxSignups
    /\ \E name \in BusinessNames, username \in Usernames, password \in Passwords :
         /\ businesses' = Append(businesses, [name |-> name])
         /\ Goto(p, [op |-> "signup", username |-> username, password |-> password], NoUser,
                 "signup_user", [business_id |-> str(Len(businesses) + 1)])
    /\ UNCHANGED <<users, cars, assignments, tokens, credits>>

\* db.users.insert_one(user)
signup_user(p) ==
    /\ pc[p] = "signup_user"
    /\ users' = Append(users, [username |-> req[p].username,
                               hashed_password |-> get_password_hash(req[p].password),
                               business_id |-> loc[p].business_id])
    /\ Respond(p, req[p], 200, [business_id |-> loc[p].business_id])
    /\ UNCHANGED <<businesses, cars, assignments, tokens, credits>>

(* ---------------- POST /auth/login ---------------- *)
login(p) ==
    /\ Free(p)
    /\ \E username \in Usernames, password \in LoginPasswords :
         LET u == authenticate_user(username, password)
             form_data == [op |-> "login", username |-> username, password |-> password]
         IN
         IF u = 0
         THEN /\ Respond(p, form_data, 400, NoBody)
              /\ UNCHANGED tokens
         ELSE LET access_token == create_access_token([sub |-> users[u].username,
                                                       business_id |-> users[u].business_id]) IN
              /\ Respond(p, form_data, 200, access_token)
              /\ tokens' = tokens \cup {access_token}
    /\ UNCHANGED <<businesses, users, cars, assignments, credits>>

(* ---------------- Depends(get_current_user) ---------------- *)
\* the bearer token is resolved before the handler body runs
authenticate(p) ==
    /\ Free(p)
    /\ \E token \in tokens \cup {ForgedToken} :
         LET u == get_current_user(token)
             request == [op |-> "pending", token |-> token]
         IN
         IF u = 0
         THEN Respond(p, request, 401, NoBody)
         ELSE Goto(p, request, users[u], "handler", NoLoc)
    /\ UNCHANGED <<businesses, users, cars, assignments, tokens, credits>>

(* ---------------- store calls on db.cars and db.assignments ---------------- *)
\* (a slip: the business filter left out of the query)
find_car_any_business(plate_key, business_id) ==
    FindOne({ c \in DOMAIN cars : cars[c].plate = plate_key })

\* (a slip: a filter on a field no document has, which matches nothing)
find_car_miss(plate_key, business_id) == 0

\* db.cars.find_one({"plate": plate_key, "business_id": business_id})
find_car(plate_key, business_id) ==
    FindOne({ c \in DOMAIN cars :
                cars[c].plate = plate_key /\ cars[c].business_id = business_id })

\* db.assignments.find_one({"_id": obj_id})
find_assignment(obj_id) ==
    IF obj_id \in DOMAIN assignments THEN obj_id ELSE 0

\* the filter of the completion update: {"_id": obj_id, "business_id": business_id}
match_update(obj_id, business_id) ==
    IF obj_id \in DOMAIN assignments /\ assignments[obj_id].business_id = business_id
    THEN obj_id ELSE 0

\* (a slip: the points added to the assignment with $inc instead of $set)
set_completed_inc(doc) ==
    [doc EXCEPT !.status = "Completed", !.points_earned = @ + POINTS_PER_WASH]

\* (a slip: the points left out of the $set)
set_completed_status_only(doc) ==
    [doc EXCEPT !.status = "Completed"]

\* {"$set": {"status": "Completed", "points_earned": POINTS_PER_WASH}}
set_completed(doc) ==
    [doc EXCEPT !.status = "Completed", !.points_earned = POINTS_PER_WASH]

\* (a slip: counting every matched document, as matched_count does)
modified_count_matched(old, new) == 1

\* UpdateResult.modified_count: a matched document counts only if the update changed it
modified_count(old, new) == IF old = new THEN 0 ELSE 1

\* (a slip: the award added on top of the increment)
inc_points_double(doc) ==
    [doc EXCEPT !.loyalty_points = @ + POINTS_PER_WASH + POINTS_PER_WASH]

\* {"$inc": {"loyalty_points": POINTS_PER_WASH}}
inc_points(doc) ==
    [doc EXCEPT !.loyalty_points = @ + POINTS_PER_WASH]

\* inserts that requests in flight are still to make
PendingInserts(label) == Cardinality({ q \in Procs : pc[q] = label })

IdInputs == { str(i) : i \in 1..MaxAssignments } \cup {NotAnId}

AssignmentInputs ==
    [car_plate : PlateInputs, employee_name : EmployeeNames, service_type : ServiceTypes]

\* the request as the handler body sees it
Request(p, op, arg) == [op |-> op, token |-> req[p].token, arg |-> arg]

(* ---------------- POST /cars/ ---------------- *)
register_find(p) ==
    /\ pc[p] = "handler"
    /\ \E car \in CarInputs :
         LET plate_key == upper(car.plate)
             business_id == cur[p].business_id
             existing_car == find_car(plate_key, business_id)
             request == Request(p, "register_car", car)
         IN
         IF existing_car # 0
         THEN Respond(p, request, 201, Doc(cars, existing_car))
         ELSE /\ Len(cars) + PendingInserts("register_insert") < MaxCars
              /\ Goto(p, request, cur[p], "register_insert",
                      [car_dict |-> [business_id |-> business_id,
                                     plate |-> plate_key,
                                     car_type |-> car.car_type,
                                     owner_name |-> car.owner_name,
                                     owner_phone |-> car.owner_phone,
                                     loyalty_points |-> 0]])
    /\ UNCHANGED <<businesses, users, cars, assignments, tokens, credits>>

register_insert(p) ==
    /\ pc[p] = "register_insert"
    /\ cars' = Append(cars, loc[p].car_dict)
    /\ Goto(p, req[p], cur[p], "register_read", [inserted_id |-> Len(cars) + 1])
    /\ UNCHANGED <<businesses, users, assignments, tokens, credits>>

register_read(p) ==
    /\ pc[p] = "register_read"
    /\ Respond(p, req[p], 201, Doc(cars, loc[p].inserted_id))
    /\ UNCHANGED <<businesses, users, cars, assignments, tokens, credits>>

(* ---------------- GET /cars/ ---------------- *)
\* Cursor.to_list(length): at most `length` documents
to_list(docs, length) ==
    IF Len(docs) <= length THEN docs ELSE SubSeq(docs, 1, length)

\* the documents of a collection as a cursor yields them, each with its _id
Docs(coll) == [i \in DOMAIN coll |-> Doc(coll, i)]

list_cars(p) ==
    /\ pc[p] = "handler"
    /\ LET business_id == cur[p].business_id
           InBusiness(c) == c.business_id = business_id
       IN Respond(p, Request(p, "list_cars", NoBody), 200,
                  to_list(SelectSeq(Docs(cars), InBusiness), ListLimit))
    /\ UNCHANGED <<businesses, users, cars, assignments, tokens, credits>>

(* ---------------- GET /cars/{plate} ---------------- *)
get_car(p) ==
    /\ pc[p] = "handler"
    /\ \E plate \in PlateInputs :
         LET plate_key == upper(plate)
             business_id == cur[p].business_id
             car == find_car(plate_key, business_id)
             request == Request(p, "get_car", plate)
         IN
         IF car = 0
         THEN Respond(p, request, 404, NoBody)
         ELSE Respond(p, request, 200, Doc(cars, car))
    /\ UNCHANGED <<businesses, users, cars, assignments, tokens, credits>>

(* ---------------- GET /cars/{plate}/history ---------------- *)
\* (a slip: the cursor left in natural order, oldest first)
sort_id_ascending(docs) == docs

\* Cursor.sort("_id", -1): the cursor yields documents by ascending _id; reversed
sort_id_descending(docs) ==
    [i \in DOMAIN docs |-> docs[Len(docs) + 1 - i]]

\* (a slip: the status left out of the history filter)
find_completed_any_status(plate_key, business_id) ==
    LET Match(a) == a.car_plate = plate_key /\ a.business_id = business_id
    IN SelectSeq(Docs(assignments), Match)

\* db.assignments.find({"car_plate": plate_key, "status": "Completed", "business_id": business_id})
find_completed(plate_key, business_id) ==
    LET Match(a) == /\ a.car_plate = plate_key
                    /\ a.status = "Completed"
                    /\ a.business_id = business_id
    IN SelectSeq(Docs(assignments), Match)

history_car(p) ==
    /\ pc[p] = "handler"
    /\ \E plate \in PlateInputs :
         LET plate_key == upper(plate)
             business_id == cur[p].business_id
             car == find_car(plate_key, business_id)
             request == Request(p, "get_car_history", plate)
         IN
         IF car = 0
         THEN Respond(p, request, 404, NoBody)
         ELSE Goto(p, request, cur[p], "history_find",
                   [plate_key |-> plate_key, business_id |-> business_id])
    /\ UNCHANGED <<businesses, users, cars, assignments, tokens, credits>>

history_find(p) ==
    /\ pc[p] = "history_find"
    /\ Respond(p, req[p], 200,
               to_list(sort_id_descending(find_completed(loc[p].plate_key, loc[p].business_id)),
                       ListLimit))
    /\ UNCHANGED <<businesses, users, cars, assignments, tokens, credits>>

(* ---------------- POST /assignments/ ---------------- *)
create_find(p) ==
    /\ pc[p] = "handler"
    /\ \E assignment_data \in AssignmentInputs :
         LET plate_key == upper(assignment_data.car_plate)
             business_id == cur[p].business_id
             request == Request(p, "create_assignment", assignment_data)
         IN
         IF find_car(plate_key, business_id) = 0
         THEN Respond(p, request, 404, NoBody)
         ELSE /\ Len(assignments) + PendingInserts("create_insert") < MaxAssignments
              /\ Goto(p, request, cur[p], "create_insert",
                      [new_assignment |-> [business_id |-> business_id,
                                           car_plate |-> plate_key,
                                           employee_name |-> assignment_data.employee_name,
                                           service_type |-> assignment_data.service_type,
                                           status |-> "Washing",
                                           points_earned |-> 0]])
    /\ UNCHANGED <<businesses, users, cars, assignments, tokens, credits>>

create_insert(p) ==
    /\ pc[p] = "create_insert"
    /\ assignments' = Append(assignments, loc[p].new_assignment)
    /\ Goto(p, req[p], cur[p], "create_read", [inserted_id |-> Len(assignments) + 1])
    /\ UNCHANGED <<businesses, users, cars, tokens, credits>>

create_read(p) ==
    /\ pc[p] = "create_read"
    /\ Respond(p, req[p], 201, Doc(assignments, loc[p].inserted_id))
    /\ UNCHANGED <<businesses, users, cars, assignments, tokens, credits>>

(* ---------------- GET /assignments/ ---------------- *)
\* (a slip: the open assignments looked up by the model's default status)
find_open_pending(business_id) ==
    LET Match(a) == a.status = "Pending" /\ a.business_id = business_id
    IN SelectSeq(Docs(assignments), Match)

\* db.assignments.find({"status": {"$ne": "Completed"}, "business_id": business_id})
find_open(business_id) ==
    LET Match(a) == a.status # "Completed" /\ a.business_id = business_id
    IN SelectSeq(Docs(assignments), Match)

list_assignments(p) ==
    /\ pc[p] = "handler"
    /\ Respond(p, Request(p, "list_assignments", NoBody), 200,
               to_list(find_open(cur[p].business_id), ListLimit))
    /\ UNCHANGED <<businesses, users, cars, assignments, tokens, credits>>

(* ---------------- PUT /assignments/{assignment_id}/complete ---------------- *)
\* (a slip: the status check placed before the tenancy check)
complete_checks_status_first(a, business_id) ==
    IF a = 0 THEN 404
    ELSE IF assignments[a].status = "Completed" THEN 400
    ELSE IF assignments[a].business_id # business_id THEN 403
    ELSE 0

\* the checks between the lookup and the update: 0 when all pass
complete_checks(a, business_id) ==
    IF a = 0 THEN 404
    ELSE IF assignments[a].business_id # business_id THEN 403
    ELSE IF assignments[a].status = "Completed" THEN 400
    ELSE 0

complete_find(p) ==
    /\ pc[p] = "handler"
    /\ \E assignment_id \in IdInputs :
         LET request == Request(p, "complete_assignment", assignment_id) IN
         IF ~ObjectId_is_valid(assignment_id)
         THEN Respond(p, request, 400, NoBody)
         ELSE LET obj_id == ObjectId(assignment_id)
                  assignment_to_update == find_assignment(obj_id)
                  business_id == cur[p].business_id
                  code == complete_checks(assignment_to_update, business_id)
              IN
              IF code # 0
              THEN Respond(p, request, code, NoBody)
              ELSE Goto(p, request, cur[p], "complete_update",
                        [obj_id |-> obj_id,
                         assignment_to_update |-> assignments[assignment_to_update],
                         business_id |-> business_id])
    /\ UNCHANGED <<businesses, users, cars, assignments, tokens, credits>>

complete_update(p) ==
    /\ pc[p] = "complete_update"
    /\ LET m == match_update(loc[p].obj_id, loc[p].business_id) IN
       IF m = 0
       THEN /\ Respond(p, req[p], 404, NoBody)
            /\ UNCHANGED assignments
       ELSE LET new == set_completed(assignments[m]) IN
            /\ assignments' = [assignments EXCEPT ![m] = new]
            /\ IF modified_count(assignments[m], new) = 0
               THEN Respond(p, req[p], 404, NoBody)
               ELSE Goto(p, req[p], cur[p], "complete_credit", loc[p])
    /\ UNCHANGED <<businesses, users, cars, tokens, credits>>

complete_credit(p) ==
    /\ pc[p] = "complete_credit"
    /\ LET car_plate == loc[p].assignment_to_update.car_plate
           c == find_car(car_plate, loc[p].business_id)
       IN
       IF c = 0
       THEN /\ Respond(p, req[p], 404, NoBody)
            /\ UNCHANGED <<cars, credits>>
       ELSE /\ cars' = [cars EXCEPT ![c] = inc_points(cars[c])]
            /\ credits' = [credits EXCEPT ![loc[p].obj_id] = @ + 1]
            /\ Respond(p, req[p], 200, Doc(cars', c))
    /\ UNCHANGED <<businesses, users, assignments, tokens>>

(* ---------------- specifications ---------------- *)
\* the ledger: authenticated requests of the two tenants, interleaved
Next ==
    \E p \in Procs :
        \/ authenticate(p)
        \/ register_find(p)
        \/ register_insert(p)
        \/ register_read(p)
        \/ create_find(p)
        \/ create_insert(p)
        \/ create_read(p)
        \/ complete_find(p)
        \/ complete_update(p)
        \/ complete_credit(p)

Spec == Init /\ [][Next]_vars

\* the ledger with one request at a time: a request starts only when none is in flight
Quiet == \A q \in Procs : pc[q] = "idle"

NextSeq ==
    \E p \in Procs :
        \/ Quiet /\ authenticate(p)
        \/ register_find(p)
        \/ register_insert(p)
        \/ register_read(p)
        \/ create_find(p)
        \/ create_insert(p)
        \/ create_read(p)
        \/ complete_find(p)
        \/ complete_update(p)
        \/ complete_credit(p)

SpecSeq == Init /\ [][NextSeq]_vars

\* the ledger with its read requests: every authenticated endpoint, interleaved
NextAll ==
    \E p \in Procs :
        \/ authenticate(p)
        \/ register_find(p)
        \/ register_insert(p)
        \/ register_read(p)
        \/ list_cars(p)
        \/ get_car(p)
        \/ history_car(p)
        \/ history_find(p)
        \/ create_find(p)
        \/ create_insert(p)
        \/ create_read(p)
        \/ list_assignments(p)
        \/ complete_find(p)
        \/ complete_update(p)
        \/ complete_credit(p)

SpecAll == Init /\ [][NextAll]_vars

\* accounts: signups and logins on an empty database, and the requests they authorize
NextAuth ==
    \E p \in Procs :
        \/ signup_business(p)
        \/ signup_user(p)
        \/ login(p)
        \/ authenticate(p)
        \/ list_cars(p)

SpecAuth == InitAuth /\ [][NextAuth]_vars

(* ---------------- sums over the collections ---------------- *)
RECURSIVE SumOver(_, _)
\* the sum of f[i] over the indices i in S
SumOver(f, S) ==
    IF S = {} THEN 0
    ELSE LET i == CHOOSE x \in S : TRUE IN f[i] + SumOver(f, S \ {i})

\* the (business_id, plate) pairs that some vehicle or assignment carries
Keys ==
    { <<cars[i].business_id, cars[i].plate>> : i \in DOMAIN cars }
      \cup { <<assignments[a].business_id, assignments[a].car_plate>> : a \in DOMAIN assignments }

VehiclesOf(k) == { i \in DOMAIN cars : cars[i].business_id = k[1] /\ cars[i].plate = k[2] }

AssignmentsOf(k) ==
    { a \in DOMAIN assignments :
        assignments[a].business_id = k[1] /\ assignments[a].car_plate = k[2] }

CompletedOf(k) == { a \in AssignmentsOf(k) : assignments[a].status = "Completed" }

\* the loyalty points held by the vehicle records of a key
LoyaltyOf(k) == SumOver([i \in DOMAIN cars |-> cars[i].loyalty_points], VehiclesOf(k))

\* the points recorded on the Completed assignments of a key
EarnedOf(k) == SumOver([a \in DOMAIN assignments |-> assignments[a].points_earned], CompletedOf(k))

\* complete requests past their lookup, by the assignment they are on
Completing(a) ==
    { p \in Procs : pc[p] \in {"complete_update", "complete_credit"} /\ loc[p].obj_id = a }

\* complete requests that have applied their status update and not yet their credit
AwaitingCredit(k) ==
    { p \in Procs : /\ pc[p] = "complete_credit"
                    /\ loc[p].business_id = k[1]
                    /\ loc[p].assignment_to_update.car_plate = k[2] }

\* the assignment a complete request names, 0 when the id is malformed
Target(request) ==
    IF ObjectId_is_valid(request.arg) THEN ObjectId(request.arg) ELSE 0

IsResponse(op) == resp.request.op = op

\* worker p takes the step
Acts(p) == pc'[p] # pc[p] \/ resp'.proc = p

\* the request worker p is serving in the step it takes
Served(p) == IF resp'.proc = p THEN resp'.request ELSE req'[p]

Responds(p, codes) == resp'.proc = p /\ resp'.code \in codes

LedgerUnchanged == cars' = cars /\ assignments' = assignments

(* ---------------- C1 ---------------- *)
\* C1: however many complete requests race on one assignment, its vehicle is
\* credited at most once at any time, exactly once (POINTS_PER_WASH) when the
\* assignment is Completed and no complete request on it is still in flight, and
\* the vehicles of a key hold exactly the points credited for its assignments.
C1_CompleteCreditsOnce ==
    /\ \A a \in DOMAIN assignments :
         /\ credits[a] <= 1
         /\ Completing(a) = {} =>
              credits[a] = (IF assignments[a].status = "Completed" THEN 1 ELSE 0)
    /\ \A k \in Keys :
         LoyaltyOf(k) = POINTS_PER_WASH * SumOver(credits, AssignmentsOf(k))

\* two owners' requests raced on one assignment: the loser got its 404 after the
\* winner had credited the point
C1_Witness ==
    /\ Quiet
    /\ IsResponse("complete_assignment")
    /\ resp.code = 404
    /\ Target(resp.request) \in DOMAIN assignments
    /\ assignments[Target(resp.request)].business_id = resp.request.token.business_id
    /\ credits[Target(resp.request)] = 1

(* ---------------- C2 ---------------- *)
OwnerCompletes(r) ==
    /\ r.op = "complete_assignment"
    /\ Target(r) \in DOMAIN assignments
    /\ assignments[Target(r)].business_id = r.token.business_id

C2_Step(p) ==
    LET r == Served(p)
        a == Target(r)
        k == <<assignments[a].business_id, assignments[a].car_plate>>
        Refused == Responds(p, {400, 404}) /\ LedgerUnchanged
    IN
    (Acts(p) /\ OwnerCompletes(r)) =>
      CASE pc[p] = "handler" ->
             IF assignments[a].status = "Completed" THEN Refused
             ELSE pc'[p] = "complete_update" /\ LedgerUnchanged
        [] pc[p] = "complete_update" ->
             IF assignments[a].status = "Completed" THEN Refused
             ELSE /\ pc'[p] = "complete_credit"
                  /\ assignments'[a].status = "Completed"
                  /\ cars' = cars
        [] pc[p] = "complete_credit" ->
             /\ Responds(p, {200})
             /\ assignments' = assignments
             /\ \E c \in VehiclesOf(k) :
                  /\ resp'.body = Doc(cars', c)
                  /\ resp'.body.loyalty_points = cars[c].loyalty_points + 1
                  /\ \A d \in DOMAIN cars : d # c => cars'[d] = cars[d]
        [] OTHER -> TRUE

\* C2: with one request at a time, the owner's complete on a Washing assignment
\* goes through and returns the vehicle with loyalty_points one higher than before
\* the call; the owner's complete on a Completed assignment is refused with 400 or
\* 404 and changes neither the vehicles nor the assignments.
C2_CompleteTwice == [][\A p \in Procs : C2_Step(p)]_vars

\* the owner's second complete was refused after the first had credited the vehicle
C2_Witness ==
    /\ IsResponse("complete_assignment")
    /\ resp.code = 400
    /\ OwnerCompletes(resp.request)
    /\ assignments[Target(resp.request)].status = "Completed"
    /\ \E c \in DOMAIN cars : cars[c].loyalty_points = 1

(* ---------------- C3 ---------------- *)
CrossTenantComplete(r) ==
    /\ r.op = "complete_assignment"
    /\ Target(r) \in DOMAIN assignments
    /\ assignments[Target(r)].business_id # r.token.business_id

\* C3: a complete request whose token is for a business other than the
\* assignment's is refused with 403 or 404 in the step that looks the assignment up,
\* and no vehicle and no assignment changes.
C3_CrossTenantRefused ==
    [][\A p \in Procs :
         (Acts(p) /\ CrossTenantComplete(Served(p))) =>
            /\ Responds(p, {403, 404})
            /\ LedgerUnchanged
            /\ credits' = credits]_vars

\* business A was refused on B's Completed assignment while A has a vehicle with
\* the same plate
C3_Witness ==
    /\ IsResponse("complete_assignment")
    /\ resp.code = 403
    /\ CrossTenantComplete(resp.request)
    /\ assignments[Target(resp.request)].status = "Completed"
    /\ VehiclesOf(<<resp.request.token.business_id,
                    assignments[Target(resp.request)].car_plate>>) # {}

(* ---------------- C4 ---------------- *)
\* C4 as stated: in every reachable state every vehicle's loyalty_points is the sum
\* of points_earned over the Completed assignments of its business and plate.
C4_PointsEqualEarned ==
    \A c \in DOMAIN cars :
        cars[c].loyalty_points = EarnedOf(<<cars[c].business_id, cars[c].plate>>)

\* C4 amended: for every business and plate, the loyalty_points of its vehicle
\* records sum to the points_earned of its Completed assignments, less
\* POINTS_PER_WASH for each complete request that has applied its status update
\* and not yet its credit.
C4_PointsEqualEarnedLessPending ==
    \A k \in Keys :
        LoyaltyOf(k) + POINTS_PER_WASH * Cardinality(AwaitingCredit(k)) = EarnedOf(k)

\* an assignment is Completed with its point recorded and the credit still to come
C4_Witness ==
    \E k \in Keys :
        /\ AwaitingCredit(k) # {}
        /\ EarnedOf(k) = POINTS_PER_WASH
        /\ LoyaltyOf(k) = 0

(* ---------------- C5 ---------------- *)
\* C5: the cars collection holds at most one vehicle per (business_id, plate).
C5_OneVehiclePerPlate ==
    \A i, j \in DOMAIN cars :
        (cars[i].business_id = cars[j].business_id /\ cars[i].plate = cars[j].plate) => i = j

(* ---------------- C6 ---------------- *)
\* the vehicles a register request's plate already has in the caller's business
Registered(r) == VehiclesOf(<<r.token.business_id, upper(r.arg.plate)>>)

\* C6: a register request for a plate that has a vehicle in the caller's business
\* answers 201 with one of those stored vehicles, exactly as stored, and leaves the
\* cars collection as it was: no field changed, no record inserted.
C6_RegisterExistingUnchanged ==
    [][\A p \in Procs :
         (Acts(p) /\ pc[p] = "handler" /\ Served(p).op = "register_car"
                  /\ Registered(Served(p)) # {}) =>
            /\ Responds(p, {201})
            /\ resp'.body.id \in Registered(Served(p))
            /\ resp'.body = Doc(cars, resp'.body.id)
            /\ LedgerUnchanged]_vars

\* a vehicle that has earned a point was registered again with other details and
\* came back as stored
C6_Witness ==
    /\ IsResponse("register_car")
    /\ resp.code = 201
    /\ resp.body.loyalty_points = 1
    /\ resp.body.car_type # resp.request.arg.car_type
    /\ resp.body.owner_name # resp.request.arg.owner_name
    /\ resp.body.owner_phone # resp.request.arg.owner_phone

(* ---------------- C7 ---------------- *)
\* C7: no step changes the status or the points_earned of a Completed assignment.
C7_CompletedIsTerminal ==
    [][\A a \in DOMAIN assignments :
         assignments[a].status = "Completed" =>
            /\ a \in DOMAIN assignments'
            /\ assignments'[a].status = "Completed"
            /\ assignments'[a].points_earned = assignments[a].points_earned]_vars

\* a complete request is about to apply its update to an assignment that a
\* competitor has already completed
C7_Witness ==
    \E p \in Procs :
        /\ pc[p] = "complete_update"
        /\ assignments[loc[p].obj_id].status = "Completed"

(* ---------------- C8 ---------------- *)
\* C8: a create request for a plate with no vehicle in the caller's business is
\* answered 404 and inserts nothing: vehicles and assignments stay as they were.
C8_CreateUnknownPlate ==
    [][\A p \in Procs :
         (Acts(p) /\ pc[p] = "handler" /\ Served(p).op = "create_assignment"
                  /\ VehiclesOf(<<Served(p).token.business_id,
                                  upper(Served(p).arg.car_plate)>>) = {}) =>
            /\ Responds(p, {404})
            /\ LedgerUnchanged]_vars

\* the plate was refused although another business has a vehicle with it
C8_Witness ==
    /\ IsResponse("create_assignment")
    /\ resp.code = 404
    /\ \E c \in DOMAIN cars :
         /\ cars[c].plate = upper(resp.request.arg.car_plate)
         /\ cars[c].business_id # resp.request.token.business_id

(* ---------------- C9 ---------------- *)
\* the user records a login form's credentials belong to
AccountsOf(form_data) ==
    { u \in DOMAIN users :
        /\ users[u].username = form_data.username
        /\ verify_password(form_data.password, users[u].hashed_password) }

\* C9: a handler's business scope is the business_id of its bearer token, and
\* the token a login returns carries the business created by the signup of the
\* account that logged in.
C9_ScopeIsSignupBusiness ==
    /\ \A p \in Procs :
         pc[p] = "handler" => cur[p].business_id = req[p].token.business_id
    /\ (IsResponse("login") /\ resp.code = 200) =>
         \A u \in AccountsOf(resp.request) : resp.body.business_id = users[u].business_id

(* ---------------- C10 ---------------- *)
\* C10: once every signup has returned, no two user records share a username and
\* every business has exactly one user.
C10_UsernamesUnique ==
    Quiet =>
      /\ \A i, j \in DOMAIN users : users[i].username = users[j].username => i = j
      /\ \A b \in DOMAIN businesses :
           Cardinality({ u \in DOMAIN users : users[u].business_id = str(b) }) = 1

(* ---------------- responses seen by a tenant ---------------- *)
\* the business a request is scoped to
Scope(request) == request.token.business_id

\* the _ids of a returned list of documents
IdsOf(docs) == { docs[i].id : i \in DOMAIN docs }

LowerCase == {"a", "b"}

IsUpperCase(s) == \A i \in DOMAIN s : s[i] \notin LowerCase

\* the two strings differ at most in the case of their letters
SameIgnoringCase(s, t) ==
    /\ Len(s) = Len(t)
    /\ \A i \in DOMAIN s :
         \/ s[i] = t[i]
         \/ <<s[i], t[i]>> \in { <<"a", "A">>, <<"A", "a">>, <<"b", "B">>, <<"B", "b">> }

\* the plate a request names, as the client wrote it
PlateOf(request) ==
    CASE request.op = "register_car" -> request.arg.plate
      [] request.op = "create_assignment" -> request.arg.car_plate
      [] OTHER -> request.arg

\* the caller's vehicles whose plate is the request's plate up to case
SamePlate(request) ==
    { c \in DOMAIN cars : /\ cars[c].business_id = Scope(request)
                          /\ SameIgnoringCase(cars[c].plate, PlateOf(request)) }

\* C12: every stored plate and car_plate is uppercase, and register, get,
\* history and create treat plates that differ only in case as one vehicle: a
\* 404 means the business has no vehicle with that plate in any case, and what
\* is returned or stored is the vehicle (or its assignments) of that plate.
C12_PlatesUppercase ==
    /\ \A c \in DOMAIN cars : IsUpperCase(cars[c].plate)
    /\ \A a \in DOMAIN assignments : IsUpperCase(assignments[a].car_plate)
    /\ resp.request.op \in {"register_car", "get_car", "get_car_history", "create_assignment"} =>
         /\ resp.code = 404 => SamePlate(resp.request) = {}
         /\ resp.code \in {200, 201} => SamePlate(resp.request) # {}
         /\ (resp.request.op \in {"register_car", "get_car"} /\ resp.code \in {200, 201}) =>
              resp.body.id \in SamePlate(resp.request)
         /\ (IsResponse("create_assignment") /\ resp.code = 201) =>
              SameIgnoringCase(resp.body.car_plate, PlateOf(resp.request))
         /\ (IsResponse("get_car_history") /\ resp.code = 200) =>
              \A i \in DOMAIN resp.body :
                  SameIgnoringCase(resp.body[i].car_plate, PlateOf(resp.request))

\* the vehicle registered as "a1" was fetched as "A1"
C12_Witness ==
    /\ IsResponse("get_car")
    /\ resp.code = 200
    /\ resp.request.arg = <<"A", "1">>
    /\ resp.body.owner_name = "ann"

(* ---------------- C13 ---------------- *)
\* C13: a complete request goes on to the increment only from its own update,
\* and only when that update modified the assignment; an update that modified
\* nothing answers 404 and the request ends; so every increment of
\* loyalty_points is made by a request whose assignment is already Completed.
C13_CreditOnlyAfterModified ==
    [][ /\ \A p \in Procs :
             /\ (pc[p] = "complete_update" /\ Acts(p)) =>
                  /\ cars' = cars
                  /\ IF assignments' # assignments
                     THEN /\ pc'[p] = "complete_credit"
                          /\ assignments'[loc[p].obj_id].status = "Completed"
                     ELSE Responds(p, {404})
             /\ (pc'[p] = "complete_credit" /\ pc[p] # "complete_credit") =>
                  pc[p] = "complete_update" /\ assignments' # assignments
        /\ (\E c \in DOMAIN cars : cars'[c].loyalty_points # cars[c].loyalty_points) =>
             \E p \in Procs : /\ pc[p] = "complete_credit"
                              /\ Acts(p)
                              /\ assignments[loc[p].obj_id].status = "Completed"
      ]_vars

\* the loser of a race got its 404 from the update while the winner, whose
\* update modified the assignment, has its increment still to make
C13_Witness ==
    /\ IsResponse("complete_assignment")
    /\ resp.code = 404
    /\ \E q \in Procs : /\ pc[q] = "complete_credit"
                        /\ loc[q].obj_id = Target(resp.request)
                        /\ credits[loc[q].obj_id] = 0

(* ---------------- C14 ---------------- *)
\* C14: the step of complete that looks the assignment up applies its checks in
\* the order malformed id (400), not found (404), other business (403), already
\* Completed (400): another business's assignment is refused with 403 whatever
\* its status, and only the caller's own Washing assignment goes on to the update.
C14_ChecksInOrder ==
    [][\A p \in Procs :
         (pc[p] = "handler" /\ Acts(p) /\ Served(p).op = "complete_assignment") =>
            LET a == Target(Served(p)) IN
            IF ~ObjectId_is_valid(Served(p).arg) THEN Responds(p, {400})
            ELSE IF a \notin DOMAIN assignments THEN Responds(p, {404})
            ELSE IF assignments[a].business_id # cur[p].business_id THEN Responds(p, {403})
            ELSE IF assignments[a].status = "Completed" THEN Responds(p, {400})
            ELSE pc'[p] = "complete_update"]_vars

\* a business that has no vehicle of that plate was refused with 403 on another
\* business's Completed assignment
C14_Witness ==
    /\ IsResponse("complete_assignment")
    /\ resp.code = 403
    /\ CrossTenantComplete(resp.request)
    /\ assignments[Target(resp.request)].status = "Completed"
    /\ VehiclesOf(<<Scope(resp.request), assignments[Target(resp.request)].car_plate>>) = {}

(* ---------------- C15 ---------------- *)
\* C15: every assignment, stored or about to be inserted, has a vehicle with its
\* business_id and plate; a complete request about to credit has one too, so the
\* credit step never answers 404: a 404 on the caller's own assignment comes from
\* the update of a request that lost the race to another.
C15_AssignmentsHaveVehicle ==
    /\ \A a \in DOMAIN assignments :
         VehiclesOf(<<assignments[a].business_id, assignments[a].car_plate>>) # {}
    /\ \A p \in Procs :
         /\ pc[p] = "create_insert" =>
              VehiclesOf(<<loc[p].new_assignment.business_id,
                           loc[p].new_assignment.car_plate>>) # {}
         /\ pc[p] = "complete_credit" =>
              VehiclesOf(<<loc[p].business_id, loc[p].assignment_to_update.car_plate>>) # {}
    /\ (IsResponse("complete_assignment") /\ resp.code = 404
          /\ Target(resp.request) \in DOMAIN assignments
          /\ ~CrossTenantComplete(resp.request)) =>
         \/ Completing(Target(resp.request)) # {}
         \/ credits[Target(resp.request)] >= 1

\* a completion credited a vehicle of a plate that has two vehicle records
C15_Witness ==
    /\ IsResponse("complete_assignment")
    /\ resp.code = 200
    /\ Cardinality(VehiclesOf(<<Scope(resp.request),
                                assignments[Target(resp.request)].car_plate>>)) = 2

(* ---------------- C16 ---------------- *)
\* C16: a vehicle's loyalty_points changes only in the credit step of a complete
\* request that answers 200, and then by exactly POINTS_PER_WASH on one vehicle;
\* a new vehicle starts at 0; every other step, of any operation or of a
\* complete that fails, leaves every vehicle's points as they were.
C16_PointsOnlyByCredit ==
    [][ /\ \A c \in DOMAIN cars :
             \/ cars'[c].loyalty_points = cars[c].loyalty_points
             \/ /\ cars'[c].loyalty_points = cars[c].loyalty_points + POINTS_PER_WASH
                /\ \E p \in Procs : /\ pc[p] = "complete_credit"
                                    /\ Responds(p, {200})
                                    /\ resp'.request.op = "complete_assignment"
                /\ \A d \in DOMAIN cars \ {c} : cars'[d] = cars[d]
        /\ \A c \in DOMAIN cars' \ DOMAIN cars : cars'[c].loyalty_points = 0
        /\ DOMAIN cars \subseteq DOMAIN cars'
      ]_vars

\* a vehicle was credited for its second wash
C16_Witness ==
    /\ IsResponse("complete_assignment")
    /\ resp.code = 200
    /\ resp.body.loyalty_points = 2 * POINTS_PER_WASH

(* ---------------- C17 ---------------- *)
\* C17: every assignment, stored or about to be inserted, has (status,
\* points_earned) equal to (Washing, 0) or (Completed, POINTS_PER_WASH); Pending
\* is never stored; as both pairs differ in both fields, the two fields change
\* in the same step.
C17_StatusPointsPairs ==
    /\ \A a \in DOMAIN assignments :
         <<assignments[a].status, assignments[a].points_earned>>
            \in { <<"Washing", 0>>, <<"Completed", POINTS_PER_WASH>> }
    /\ \A p \in Procs :
         pc[p] = "create_insert" =>
            /\ loc[p].new_assignment.status = "Washing"
            /\ loc[p].new_assignment.points_earned = 0

\* one assignment is Completed with its points while another is still Washing
C17_Witness ==
    \E a, b \in DOMAIN assignments :
        /\ assignments[a].status = "Completed"
        /\ assignments[a].points_earned = POINTS_PER_WASH
        /\ assignments[b].status = "Washing"
        /\ assignments[b].points_earned = 0

(* ---------------- C18 ---------------- *)
\* the records of business b, in store order: all that b's requests may depend on
ViewCars(b) ==
    LET Own(c) == c.business_id = b IN SelectSeq(Docs(cars), Own)

ViewAssignments(b) ==
    LET Own(a) == a.business_id = b IN SelectSeq(Docs(assignments), Own)

Range(docs) == { docs[i] : i \in DOMAIN docs }

\* the response just sent is the one the caller's own records determine; a
\* complete on an id that is none of the caller's assignments answers `foreign`
\* when the id is another business's assignment and 404 when it is no assignment
AnswerFromOwnRecords(foreign) ==
    LET r == resp.request
        b == Scope(r)
        vc == ViewCars(b)
        va == ViewAssignments(b)
        HasPlate(c) == c.plate = upper(PlateOf(r))
        OfPlate(a) == a.car_plate = upper(PlateOf(r))
        Washed(a) == OfPlate(a) /\ a.status = "Completed"
        Open(a) == a.status # "Completed"
        mine == SelectSeq(vc, HasPlate)
    IN
    CASE r.op = "register_car" ->
            resp.code = 201 /\ resp.body \in Range(mine)
      [] r.op = "get_car" ->
            IF mine = <<>> THEN resp.code = 404
            ELSE resp.code = 200 /\ resp.body = Head(mine)
      [] r.op = "list_cars" ->
            resp.code = 200 /\ resp.body = vc
      [] r.op = "get_car_history" ->
            IF mine = <<>> THEN resp.code = 404
            ELSE /\ resp.code = 200
                 /\ Range(resp.body) = Range(SelectSeq(va, Washed))
                 /\ Len(resp.body) = Len(SelectSeq(va, Washed))
      [] r.op = "create_assignment" ->
            IF mine = <<>> THEN resp.code = 404
            ELSE resp.code = 201 /\ resp.body \in Range(SelectSeq(va, OfPlate))
      [] r.op = "list_assignments" ->
            resp.code = 200 /\ resp.body = SelectSeq(va, Open)
      [] r.op = "complete_assignment" ->
            IF ~ObjectId_is_valid(r.arg) THEN resp.code = 400
            ELSE IF Target(r) \notin IdsOf(va)
            THEN resp.code = (IF Target(r) \in DOMAIN assignments THEN foreign ELSE 404)
            ELSE /\ resp.code \in {200, 400, 404}
                 /\ resp.code \in {400, 404} => assignments[Target(r)].status = "Completed"
                 /\ resp.code = 200 =>
                      /\ resp.body \in Range(vc)
                      /\ resp.body.plate = assignments[Target(r)].car_plate
      [] OTHER -> TRUE

\* a request writes only records of the business it is scoped to
WritesOwnRecords ==
    \A p \in Procs :
        Acts(p) =>
          /\ \A c \in DOMAIN cars :
               cars'[c] # cars[c] => cars[c].business_id = Scope(Served(p))
          /\ \A c \in DOMAIN cars' \ DOMAIN cars :
               cars'[c].business_id = Scope(Served(p))
          /\ \A a \in DOMAIN assignments :
               assignments'[a] # assignments[a] => assignments[a].business_id = Scope(Served(p))
          /\ \A a \in DOMAIN assignments' \ DOMAIN assignments :
               assignments'[a].business_id = Scope(Served(p))

C19_QuiescentPointsEqualCompleted ==
    (\A p \in Procs : pc[p] \notin {"complete_update", "complete_credit"}) =>
        \A k \in Keys : LoyaltyOf(k) = Cardinality(CompletedOf(k))

\* at rest, a plate with two vehicle records and two Completed assignments
C19_Witness ==
    /\ Quiet
    /\ \E k \in Keys : /\ Cardinality(VehiclesOf(k)) = 2
                       /\ Cardinality(CompletedOf(k)) = 2
                       /\ LoyaltyOf(k) = 2

(* ---------------- C20 ---------------- *)
\* what history(business, plate) lists: nothing when it answers 404
HistoryOf(b, plate) ==
    IF find_car(plate, b) = 0 THEN {}
    ELSE IdsOf(to_list(sort_id_descending(find_completed(plate, b)), ListLimit))

\* what listOpen(business) lists
OpenOf(b) == IdsOf(to_list(find_open(b), ListLimit))

====
